---- MODULE Spec2Model ----
(***************************************************************************)
(* A model of scrape.py: the text normaliser, the snippet picker, the      *)
(* ordered pattern matcher, the field extractor and the run driver that    *)
(* fetches every configured card and writes cards.json and cards.csv.      *)
(*                                                                         *)
(* Python strings are TLA+ strings; a position is a 0-based offset as in   *)
(* Python, and text[a:b] is Slice(text, a, b).  A value that may be None   *)
(* is a record [none, s] (PyNone, PyStr(s)); a call that may raise         *)
(* returns a record [exc, val] (Return(v), Raise(kind)).                   *)
(***************************************************************************)
EXTENDS Integers, Sequences, FiniteSets, TLC

VARIABLES
    cards,      \* main: cfg.get("cards", []), the card descriptors
    results,    \* main: the list of Result Rows
    pc,         \* main: where the driver stands
    gotos,      \* per card position, the number of page.goto calls made
    outcome,    \* per card position, how its try block ended ("" = not run)
    jsonFile,   \* public/data/cards.json: [written, rows]
    csvFile,    \* public/data/cards.csv: [written, header, lines]
    writes,     \* the number of writes of each output file
    call,       \* core: the call under study [fn, text, keyword, window, pats]
    ret         \* core: what the call returned or raised

vars == <<cards, results, pc, gotos, outcome, jsonFile, csvFile, writes, call, ret>>

----------------------------------------------------------------------------
(* Python values *)

PyNone == [none |-> TRUE, s |-> ""]

PyStr(s) == [none |-> FALSE, s |-> s]

\* Python's truthiness of an optional string: None and "" are falsy.
Truthy(o) == ~o.none /\ o.s # ""

Return(v) == [exc |-> "", val |-> v]

Raise(kind) == [exc |-> kind, val |-> ""]

----------------------------------------------------------------------------
(* Characters and strings *)

Char(s, i) == SubSeq(s, i + 1, i + 1)

\* text[a:b] for 0 <= a, 0 <= b
Slice(s, a, b) == SubSeq(s, a + 1, IF b > Len(s) THEN Len(s) ELSE b)

\* the characters \s and str.strip() treat as whitespace
Whitespace == {" ", "\t", "\n", "\r"}

Digits == {"0", "1", "2", "3", "4", "5", "6", "7", "8", "9"}

UpperCase == "ABCDEFGHIJKLMNOPQRSTUVWXYZ"

LowerCase == "abcdefghijklmnopqrstuvwxyz"

LowerOf == [c \in {Char(UpperCase, i) : i \in 0..25} |->
              Char(LowerCase, CHOOSE i \in 0..25 : Char(UpperCase, i) = c)]

LowerChar(c) == IF c \in DOMAIN LowerOf THEN LowerOf[c] ELSE c

\* \w of the re module, on the characters of the model
WordChars == {Char(UpperCase, i) : i \in 0..25} \cup {Char(LowerCase, i) : i \in 0..25}
             \cup Digits \cup {"_"}

RECURSIVE LowerRange(_, _, _)
\* the characters a..b-1 of s in lower case (by halves: the depth stays small)
LowerRange(s, a, b) ==
    IF b <= a THEN ""
    ELSE IF b = a + 1 THEN LowerChar(Char(s, a))
    ELSE LowerRange(s, a, (a + b) \div 2) \o LowerRange(s, (a + b) \div 2, b)

\* str.lower()
lower(s) == LowerRange(s, 0, Len(s))

Max(a, b) == IF a > b THEN a ELSE b

Min(a, b) == IF a < b THEN a ELSE b

RECURSIVE FindIn(_, _, _, _)
\* the lowest index in a..b where sub occurs in s, or -1 (by halves)
FindIn(s, sub, a, b) ==
    IF b < a THEN -1
    ELSE IF a = b THEN (IF Slice(s, a, a + Len(sub)) = sub THEN a ELSE -1)
    ELSE LET left == FindIn(s, sub, a, (a + b) \div 2)
         IN  IF left # -1 THEN left ELSE FindIn(s, sub, (a + b) \div 2 + 1, b)

\* str.find(sub): the lowest index where sub occurs, or -1
find(s, sub) == FindIn(s, sub, 0, Len(s) - Len(sub))

----------------------------------------------------------------------------
(* normalize_ws *)

RECURSIVE CollapseRange(_, _, _)
\* the characters a..b-1 of s, a whitespace character that starts a run
\* replaced by one space and the rest of the run dropped
CollapseRange(s, a, b) ==
    IF b <= a THEN ""
    ELSE IF b = a + 1
         THEN IF Char(s, a) \notin Whitespace THEN Char(s, a)
              ELSE IF a > 0 /\ Char(s, a - 1) \in Whitespace THEN "" ELSE " "
    ELSE CollapseRange(s, a, (a + b) \div 2) \o CollapseRange(s, (a + b) \div 2, b)

\* re.sub(r"\s+", " ", s): every run of whitespace becomes one space
sub_ws(s) == CollapseRange(s, 0, Len(s))

RECURSIVE lstrip(_)
lstrip(s) == IF s # "" /\ Char(s, 0) \in Whitespace THEN lstrip(Slice(s, 1, Len(s))) ELSE s

RECURSIVE rstrip(_)
rstrip(s) ==
    IF s # "" /\ Char(s, Len(s) - 1) \in Whitespace THEN rstrip(Slice(s, 0, Len(s) - 1)) ELSE s

\* str.strip()
strip(s) == rstrip(lstrip(s))

RECURSIVE replace_pairs(_)
\* s.replace("  ", " "): each pair of spaces, left to right, becomes one
replace_pairs(s) ==
    IF Len(s) < 2 THEN s
    ELSE IF Slice(s, 0, 2) = "  " THEN " " \o replace_pairs(Slice(s, 2, Len(s)))
    ELSE Char(s, 0) \o replace_pairs(Slice(s, 1, Len(s)))

\* a plausible slip: (s or "").replace("  ", " ").strip()
normalize_ws_replace_pairs(o) == strip(replace_pairs(IF Truthy(o) THEN o.s ELSE ""))

\* normalize_ws(s): re.sub(r"\s+", " ", (s or "")).strip()
normalize_ws(o) == strip(sub_ws(IF Truthy(o) THEN o.s ELSE ""))

----------------------------------------------------------------------------
(* pick_snippet *)

\* a plausible slip: the window measured from the end of the occurrence
pick_snippet_from_end(text, keyword, window) ==
    IF ~Truthy(text) THEN ""
    ELSE LET idx == find(lower(text.s), lower(keyword))
         IN  IF idx = -1 THEN ""
             ELSE normalize_ws(PyStr(Slice(text.s, Max(0, idx - window),
                                           Min(Len(text.s), idx + Len(keyword) + window))))

\* a plausible slip: the end of the slice taken as inclusive
pick_snippet_inclusive_end(text, keyword, window) ==
    IF ~Truthy(text) THEN ""
    ELSE LET idx == find(lower(text.s), lower(keyword))
         IN  IF idx = -1 THEN ""
             ELSE normalize_ws(PyStr(Slice(text.s, Max(0, idx - window),
                                           Min(Len(text.s), idx + Len(keyword) + window + 1))))

\* pick_snippet(text, keyword, window)
pick_snippet(text, keyword, window) ==
    IF ~Truthy(text) THEN ""
    ELSE LET idx == find(lower(text.s), lower(keyword))
         IN  IF idx = -1 THEN ""
             ELSE LET start == Max(0, idx - window)
                      end   == Min(Len(text.s), idx + window)
                  IN  normalize_ws(PyStr(Slice(text.s, start, end)))

----------------------------------------------------------------------------
(* Regular expressions: the subset of re the patterns of parse_fields use. *)
(* A pattern is a tree of nodes [op, str, set, neg, lo, hi, kids].         *)
(* flags=re.IGNORECASE: a pattern keeps its literals and classes in lower  *)
(* case and is matched against the text in lower case; the match itself    *)
(* (group0) is cut from the text as it is.                                 *)

Node(op, str, set, neg, lo, hi, kids) ==
    [op |-> op, str |-> str, set |-> set, neg |-> neg, lo |-> lo, hi |-> hi, kids |-> kids]

\* a literal string
Lit(s) == Node("lit", lower(s), {}, FALSE, 0, 0, <<>>)

\* a character class [...] or [^...]
Cls(set, neg) == Node("cls", "", {LowerChar(c) : c \in set}, neg, 0, 0, <<>>)

\* \s and \d
WS == Cls(Whitespace, FALSE)

DIGIT == Cls(Digits, FALSE)

\* \b
WB == Node("wb", "", {}, FALSE, 0, 0, <<>>)

\* r1 r2 ... and (r1|r2|...)
Cat(kids) == Node("cat", "", {}, FALSE, 0, 0, kids)

Alt(kids) == Node("alt", "", {}, FALSE, 0, 0, kids)

\* greedy r{lo,hi}; hi = -1 is no upper limit (r+, r*)
Rep(r, lo, hi) == Node("rep", "", {}, FALSE, lo, hi, <<r>>)

Plus(r) == Rep(r, 1, -1)

Star(r) == Rep(r, 0, -1)

Opt(r) == Rep(r, 0, 1)

IsWordAt(text, i) == i >= 0 /\ i < Len(text) /\ Char(text, i) \in WordChars

RECURSIVE ConcatRange(_, _, _)
\* ss[a] \o ... \o ss[b] (by halves: the depth stays small)
ConcatRange(ss, a, b) ==
    IF b < a THEN <<>>
    ELSE IF b = a THEN ss[a]
    ELSE ConcatRange(ss, a, (a + b) \div 2) \o ConcatRange(ss, (a + b) \div 2 + 1, b)

ConcatAll(ss) == ConcatRange(ss, 1, Len(ss))

\* text is in lower case here and in Ends
ClsMatches(r, text, i) == i < Len(text) /\ ((Char(text, i) \in r.set) # r.neg)

RECURSIVE RunEnd(_, _, _, _)
\* the lowest position in a..b where the class c does not match (by halves);
\* -1 if it matches at all of them
RunEnd(c, text, a, b) ==
    IF b < a THEN -1
    ELSE IF a = b THEN (IF ClsMatches(c, text, a) THEN -1 ELSE a)
    ELSE LET left == RunEnd(c, text, a, (a + b) \div 2)
         IN  IF left # -1 THEN left ELSE RunEnd(c, text, (a + b) \div 2 + 1, b)

\* a greedy repeat of one character class from i: the longest run first,
\* then every shorter one down to lo characters
EndsClsRep(r, text, i) ==
    LET stop == RunEnd(r.kids[1], text, i, Len(text))
        most == IF r.hi = -1 THEN stop ELSE Min(stop, i + r.hi)
        n    == most - (i + r.lo) + 1
    IN  IF n <= 0 THEN <<>> ELSE [k \in 1..n |-> most - k + 1]

RECURSIVE Ends(_, _, _)
RECURSIVE EndsCat(_, _, _, _)
RECURSIVE EndsRep(_, _, _, _)

\* The positions where a match of r that starts at i can end, in the order
\* the backtracking matcher of re tries them (the first is the one it takes).
Ends(r, text, i) ==
    CASE r.op = "lit" ->
            IF Slice(text, i, i + Len(r.str)) = r.str
            THEN <<i + Len(r.str)>> ELSE <<>>
      [] r.op = "cls" ->
            IF ClsMatches(r, text, i) THEN <<i + 1>> ELSE <<>>
      [] r.op = "wb" ->
            IF IsWordAt(text, i - 1) # IsWordAt(text, i) THEN <<i>> ELSE <<>>
      [] r.op = "cat" -> EndsCat(r.kids, 1, text, i)
      [] r.op = "alt" ->
            ConcatAll([k \in 1..Len(r.kids) |-> Ends(r.kids[k], text, i)])
      [] r.op = "rep" ->
            IF r.kids[1].op = "cls" THEN EndsClsRep(r, text, i) ELSE EndsRep(r, text, i, 0)

EndsCat(kids, k, text, i) ==
    IF k > Len(kids) THEN <<i>>
    ELSE LET here == Ends(kids[k], text, i)
         IN  ConcatAll([j \in 1..Len(here) |-> EndsCat(kids, k + 1, text, here[j])])

EndsRep(r, text, i, n) ==
    LET more == IF r.hi = -1 \/ n < r.hi
                THEN LET here == Ends(r.kids[1], text, i)
                     IN  ConcatAll([j \in 1..Len(here) |->
                                      IF here[j] > i THEN EndsRep(r, text, here[j], n + 1)
                                      ELSE <<>>])
                ELSE <<>>
    IN  more \o (IF n >= r.lo THEN <<i>> ELSE <<>>)

NoMatch == [found |-> FALSE, start |-> 0, end |-> 0]

RECURSIVE SearchIn(_, _, _, _)
\* the match of p that starts at the lowest position in a..b (by halves)
SearchIn(p, text, a, b) ==
    IF a = b
    THEN LET e == Ends(p, text, a)
         IN  IF e # <<>> THEN [found |-> TRUE, start |-> a, end |-> e[1]] ELSE NoMatch
    ELSE LET left == SearchIn(p, text, a, (a + b) \div 2)
         IN  IF left.found THEN left ELSE SearchIn(p, text, (a + b) \div 2 + 1, b)

\* re.search(p, text, flags=re.IGNORECASE): the leftmost match
re_search(p, text) == SearchIn(p, lower(text), 0, Len(text))

\* m.group(0)
group0(m, text) == Slice(text, m.start, m.end)

----------------------------------------------------------------------------
(* find_first *)

RECURSIVE earliest_from(_, _, _, _)
\* the match that starts first in text among patterns[k..], best so far given
earliest_from(patterns, text, k, best) ==
    IF k > Len(patterns) THEN best
    ELSE LET m == re_search(patterns[k], text)
         IN  earliest_from(patterns, text, k + 1,
                           IF m.found /\ (~best.found \/ m.start < best.start) THEN m ELSE best)

\* a plausible slip: the match earliest in the text wins, not the first pattern
find_first_earliest(patterns, text) ==
    IF patterns = <<>> THEN Return("")
    ELSE IF text.none THEN Raise("TypeError")
    ELSE LET m == earliest_from(patterns, text.s, 1, NoMatch)
         IN  IF m.found THEN Return(normalize_ws(PyStr(group0(m, text.s)))) ELSE Return("")

RECURSIVE find_first_from(_, _, _)
find_first_from(patterns, text, k) ==
    IF k > Len(patterns) THEN Return("")
    ELSE IF text.none THEN Raise("TypeError")
    ELSE LET m == re_search(patterns[k], text.s)
         IN  IF m.found THEN Return(normalize_ws(PyStr(group0(m, text.s))))
             ELSE find_first_from(patterns, text, k + 1)

\* find_first(patterns, text): re.search raises TypeError on a text of None
find_first(patterns, text) == find_first_from(patterns, text, 1)

----------------------------------------------------------------------------
(* parse_fields *)

\* [^.]{0,n}
NotDot(n) == Rep(Cls({"."}, TRUE), 0, n)

\* [\d,]+
Amount == Plus(Cls(Digits \cup {","}, FALSE))

\* (points|miles)
PointsOrMiles == Alt(<<Lit("points"), Lit("miles")>>)

\* (Earn|Get)
EarnOrGet == Alt(<<Lit("Earn"), Lit("Get")>>)

welcome_bonus_patterns == <<
    Cat(<<EarnOrGet, Plus(WS), Opt(Cat(<<Lit("up to"), Plus(WS)>>)), Amount, Plus(WS),
          PointsOrMiles, WB, NotDot(120)>>),
    Cat(<<Amount, Plus(WS), PointsOrMiles, Plus(WS), Alt(<<Lit("welcome"), Lit("bonus")>>),
          NotDot(120)>>),
    Cat(<<EarnOrGet, Plus(WS), Lit("$"), Amount, WB, NotDot(120)>> ) >>

spend_requirement_patterns == <<
    Cat(<<Lit("after you spend"), Plus(WS), Lit("$"), Amount, NotDot(120)>>),
    Cat(<<Lit("after spending"), Plus(WS), Lit("$"), Amount, NotDot(120)>>),
    Cat(<<Lit("spend"), Plus(WS), Lit("$"), Amount, NotDot(120)>>) >>

annual_fee_patterns == <<
    Cat(<<Lit("annual fee"), NotDot(60)>>),
    Cat(<<Lit("$"), Plus(DIGIT), Plus(WS), Lit("annual fee"), NotDot(60)>>) >>

accelerators_patterns == <<
    Cat(<<WB, Plus(DIGIT), Lit("x"), WB, NotDot(140)>>),
    Cat(<<WB, Plus(DIGIT), Star(WS), PointsOrMiles, WB, Plus(WS), Lit("per"), Plus(WS),
          Lit("$1"), NotDot(140)>>),
    Cat(<<Lit("earn"), Plus(WS), Plus(DIGIT), Star(WS), PointsOrMiles, NotDot(140)>>) >>

perks_hint_patterns == <<
    Cat(<<Lit("free"), Plus(WS), Lit("checked"), Plus(WS), Lit("bag"), NotDot(140)>>),
    Cat(<<Lit("priority"), Plus(WS), Lit("boarding"), NotDot(140)>>),
    Cat(<<Lit("anniversary"), NotDot(140)>>),
    Cat(<<Lit("companion"), NotDot(140)>>),
    Cat(<<Lit("statement"), Plus(WS), Lit("credit"), NotDot(140)>>),
    Cat(<<Lit("lounge"), NotDot(140)>>) >>

\* the default of pick_snippet's window parameter
DefaultWindow == 220

\* the keywords each evidence snippet tries, in the order of its "or" chain
SnippetKeywords ==
    [bonus_snippet |-> <<"bonus", "Earn">>,
     spend_snippet |-> <<"spend", "after you spend">>,
     fee_snippet   |-> <<"annual fee">>,
     earn_snippet  |-> <<"per $1", "x">>]

SnippetFields == DOMAIN SnippetKeywords

RECURSIVE snippet_chain(_, _, _)
\* pick_snippet(text, k1) or pick_snippet(text, k2) ...: the first truthy
\* snippet, or the last one tried
snippet_chain(text, kws, k) ==
    LET here == pick_snippet(text, kws[k], DefaultWindow)
    IN  IF k = Len(kws) \/ here # "" THEN here ELSE snippet_chain(text, kws, k + 1)

\* a plausible slip: the snippets of all the keywords joined, not the first
evidence_merge(text) ==
    [f \in SnippetFields |->
        LET kws == SnippetKeywords[f]
            one == pick_snippet(text, kws[1], DefaultWindow)
        IN  IF Len(kws) = 1 THEN one
            ELSE normalize_ws(PyStr(one \o " " \o pick_snippet(text, kws[2], DefaultWindow)))]

\* the dict "evidence"
evidence(text) == [f \in SnippetFields |-> snippet_chain(text, SnippetKeywords[f], 1)]

\* parse_fields(text): the first find_first that raises ends the call
parse_fields(text) ==
    LET welcome_bonus     == find_first(welcome_bonus_patterns, text)
        spend_requirement == find_first(spend_requirement_patterns, text)
        annual_fee        == find_first(annual_fee_patterns, text)
        accelerators      == find_first(accelerators_patterns, text)
        perks_hint        == find_first(perks_hint_patterns, text)
    IN  IF welcome_bonus.exc # "" THEN Raise(welcome_bonus.exc)
        ELSE IF spend_requirement.exc # "" THEN Raise(spend_requirement.exc)
        ELSE IF annual_fee.exc # "" THEN Raise(annual_fee.exc)
        ELSE IF accelerators.exc # "" THEN Raise(accelerators.exc)
        ELSE IF perks_hint.exc # "" THEN Raise(perks_hint.exc)
        ELSE Return([welcome_bonus     |-> welcome_bonus.val,
                     spend_requirement |-> spend_requirement.val,
                     accelerators      |-> accelerators.val,
                     annual_fee_text   |-> annual_fee.val,
                     perks_hint        |-> perks_hint.val]
                    @@ evidence(text))

----------------------------------------------------------------------------
(* extract_visible_text.  A page's markup is the sequence of its elements, *)
(* each [tag, text]: what BeautifulSoup's tree holds after parsing.        *)

HiddenTags == {"script", "style", "noscript", "svg"}

RECURSIVE get_text(_, _)
\* soup.get_text(separator=" ") once the hidden tags are decomposed
get_text(html, k) ==
    IF k > Len(html) THEN ""
    ELSE IF html[k].tag \in HiddenTags THEN get_text(html, k + 1)
    ELSE LET rest == get_text(html, k + 1)
         IN  IF rest = "" THEN html[k].text ELSE html[k].text \o " " \o rest

extract_visible_text(html) == normalize_ws(PyStr(get_text(html, 1)))

----------------------------------------------------------------------------
(* main: the run driver *)

SENTINEL == "PASTE_PUBLIC_CARD_URL_HERE"

UrlA == "https://issuer-a.example/cards/travel"

UrlB == "https://issuer-b.example/cards/cash"

\* what the two configured pages hold
Site(url) ==
    IF url = UrlA
    THEN << [tag |-> "script", text |-> "x"],
            [tag |-> "p",
             text |-> "Earn 60,000 points after you spend $4,000 in the first 3 months."],
            [tag |-> "p", text |-> "Annual fee $95." ] >>
    ELSE << [tag |-> "h1", text |-> "Cash  card"],
            [tag |-> "style", text |-> "p { bonus: none }"],
            [tag |-> "p", text |-> "Get 2x miles\n on dining. Free checked bag"] >>

\* the card descriptors a configuration may list: every key absent, the url
\* null, empty, the sentinel, a string that contains the sentinel, a real url
CardPool == <<
    [id |-> "c0"],
    [id |-> "c1", name |-> "Null", issuer |-> "I", url |-> PyNone],
    [id |-> "c2", name |-> "Empty", issuer |-> "I", url |-> PyStr("")],
    [id |-> "c3", name |-> "Todo", issuer |-> "I", url |-> PyStr(SENTINEL)],
    [id |-> "c4", name |-> "Half", url |-> PyStr("https://x.example/" \o SENTINEL \o "?a=1")],
    [id |-> "c5", name |-> "Travel", issuer |-> "A", url |-> PyStr(UrlA)],
    [id |-> "c6", name |-> "Cash", issuer |-> "B", url |-> PyStr(UrlB)] >>

\* how many cards a configuration lists at most
MaxCards == 2

\* what the collaborators do for one card: every call succeeds ("" fails
\* nowhere) or the named call raises an exception of the named kind
Outcomes == {
    [fail_at |-> "", kind |-> ""],
    [fail_at |-> "goto", kind |-> "TimeoutError"],
    [fail_at |-> "goto", kind |-> "Error"],
    [fail_at |-> "content", kind |-> "Error"],
    [fail_at |-> "extract_visible_text", kind |-> "FeatureNotFound"] }

\* dict.get(k, default)
Get(d, k, default) == IF k \in DOMAIN d THEN d[k] ELSE default

\* a plausible slip: only the exact sentinel counts as not configured
missing_url_exact(url) == ~url.none /\ url.s = SENTINEL

\* not url or "PASTE_PUBLIC_CARD_URL_HERE" in url
missing_url(url) == ~Truthy(url) \/ find(url.s, SENTINEL) # -1

\* the row before the fetch
base_row(c) ==
    [id |-> Get(c, "id", ""), name |-> Get(c, "name", ""), issuer |-> Get(c, "issuer", ""),
     url |-> Get(c, "url", PyStr(""))]

\* f"ERROR: {type(e).__name__}"
error_status(kind) == "ERROR: " \o kind

\* row.update(d)
Update(row, d) == d @@ row

\* a plausible slip: only page.goto inside the try, and no continue after the
\* except: the page is read and parsed whatever the fetch did
try_block_goto_only(row, url, o) ==
    LET fields == parse_fields(PyStr(extract_visible_text(Site(url))))
    IN  IF o.fail_at # ""
        THEN Update(Update(row, fields.val), [status |-> error_status(o.kind)])
        ELSE Update(Update(row, fields.val), [status |-> "OK"])

\* the try/except of one card: the row it leaves
try_block(row, url, o) ==
    IF o.fail_at \in {"goto", "content", "extract_visible_text"}
    THEN Update(row, [status |-> error_status(o.kind)])
    ELSE LET html   == Site(url)
             text   == extract_visible_text(html)
             fields == parse_fields(PyStr(text))
         IN  IF fields.exc # ""
             THEN Update(row, [status |-> error_status(fields.exc)])
             ELSE Update(Update(row, fields.val), [status |-> "OK"])

\* one pass of the loop body: the row appended for card c
card_row(c, o) ==
    LET url == Get(c, "url", PyStr(""))
        row == base_row(c)
    IN  IF missing_url(url) THEN Update(row, [status |-> "MISSING_URL"])
        ELSE try_block(row, url.s, o)

\* a plausible slip: "except TimeoutError" instead of "except Exception"
caught_timeout_only(kind) == kind = "TimeoutError"

\* except Exception: every failure of the collaborators is an Exception
caught(kind) == kind \in {"", "TimeoutError", "Error", "FeatureNotFound", "TypeError"}

\* a plausible slip: the writes indented into the loop
loop_done_first_row == Len(results) >= Min(1, Len(cards))

\* "for c in cards" is exhausted
loop_done == Len(results) = Len(cards)

cols == <<"id", "name", "issuer", "url", "status",
          "welcome_bonus", "spend_requirement", "accelerators", "annual_fee_text", "perks_hint",
          "bonus_snippet", "spend_snippet", "fee_snippet", "earn_snippet">>

\* csv writes None as the empty cell
Cell(r, k) == IF k = "url" THEN (IF r.url.none THEN "" ELSE r.url.s) ELSE Get(r, k, "")

csv_line(r) == [j \in 1..Len(cols) |-> Cell(r, cols[j])]

NotWritten == [written |-> FALSE, rows |-> <<>>]

IdleCall == [fn |-> "", text |-> PyNone, keyword |-> "", window |-> 0, pats |-> <<>>]

IdleRet == [done |-> FALSE, exc |-> "", val |-> ""]

Configs == UNION {[1..n -> 1..Len(CardPool)] : n \in 0..MaxCards}

Init ==
    /\ \E cfg \in Configs : cards = [i \in 1..Len(cfg) |-> CardPool[cfg[i]]]
    /\ results = <<>>
    /\ pc = "loop"
    /\ gotos = [i \in 1..Len(cards) |-> 0]
    /\ outcome = [i \in 1..Len(cards) |-> ""]
    /\ jsonFile = NotWritten
    /\ csvFile = NotWritten
    /\ writes = [json |-> 0, csv |-> 0]
    /\ call = IdleCall
    /\ ret = IdleRet

\* lines 102-125: the loop body for the next card
ProcessCard ==
    /\ pc = "loop"
    /\ ~loop_done
    /\ LET i   == Len(results) + 1
           c   == cards[i]
           url == Get(c, "url", PyStr(""))
       IN  IF missing_url(url)
           THEN /\ results' = Append(results, card_row(c, [fail_at |-> "", kind |-> ""]))
                /\ outcome' = [outcome EXCEPT ![i] = "skipped"]
                /\ UNCHANGED <<gotos, pc>>
           ELSE \E o \in Outcomes :
                  /\ gotos' = [gotos EXCEPT ![i] = @ + 1]
                  /\ IF caught(o.kind)
                     THEN /\ results' = Append(results, card_row(c, o))
                          /\ outcome' = [outcome EXCEPT ![i] = IF o.fail_at = "" THEN "ok"
                                                                ELSE o.kind]
                          /\ pc' = pc
                     ELSE /\ pc' = "crashed"
                          /\ outcome' = [outcome EXCEPT ![i] = o.kind]
                          /\ UNCHANGED results
    /\ UNCHANGED <<cards, jsonFile, csvFile, writes, call, ret>>

\* lines 127-128: context.close(); browser.close()
CloseBrowser ==
    /\ pc = "loop"
    /\ loop_done
    /\ pc' = "write_json"
    /\ UNCHANGED <<cards, results, gotos, outcome, jsonFile, csvFile, writes, call, ret>>

\* line 131: cards.json
WriteJson ==
    /\ pc = "write_json"
    /\ jsonFile' = [written |-> TRUE, rows |-> results]
    /\ writes' = [writes EXCEPT !.json = @ + 1]
    /\ pc' = "write_csv"
    /\ UNCHANGED <<cards, results, gotos, outcome, csvFile, call, ret>>

\* lines 133-144: cards.csv
WriteCsv ==
    /\ pc = "write_csv"
    /\ csvFile' = [written |-> TRUE, rows |-> [i \in 1..Len(results) |-> csv_line(results[i])]]
    /\ writes' = [writes EXCEPT !.csv = @ + 1]
    /\ pc' = "done"
    /\ UNCHANGED <<cards, results, gotos, outcome, jsonFile, call, ret>>

Next == ProcessCard \/ CloseBrowser \/ WriteJson \/ WriteCsv

Spec == Init /\ [][Next]_vars

----------------------------------------------------------------------------
(* The heuristic core on its own: one call of one function on an input     *)
(* drawn from a bounded set.                                               *)

\* the longest text, keyword and pattern list, and the widest window, drawn
MaxLen == 4

MaxKeyLen == 2

MaxWindow == 2

MaxPats == 2

RECURSIVE Strings(_, _)
\* the strings of at most n characters of alphabet
Strings(alphabet, n) ==
    IF n = 0 THEN {""}
    ELSE LET shorter == Strings(alphabet, n - 1)
         IN  shorter \cup {s \o c : s \in shorter, c \in alphabet}

\* texts, None among them; some hold tabs, newlines and longer runs of spaces
Texts ==
    {PyNone} \cup {PyStr(s) : s \in Strings({"a", "B", " "}, MaxLen)
                                    \cup {"\ta \n B", " \t", "a\n\nB\t", "B\r\n a", "a   B"}}

Keywords == Strings({"A", "b"}, MaxKeyLen)

\* the patterns find_first is called with here
PatternPool == <<
    Lit("a"),
    Lit("b"),
    Cat(<<Lit("a"), Plus(WS), Lit("b")>>),
    Cat(<<Lit("b"), Rep(Cls({"a"}, TRUE), 0, 2)>>) >>

PatternLists == UNION {[1..n -> 1..Len(PatternPool)] : n \in 0..MaxPats}

Patterns(call_) == [k \in 1..Len(call_.pats) |-> PatternPool[call_.pats[k]]]

CoreCalls ==
    {[fn |-> "normalize_ws", text |-> t, keyword |-> "", window |-> 0, pats |-> <<>>] :
        t \in Texts}
    \cup {[fn |-> "pick_snippet", text |-> t, keyword |-> k, window |-> w, pats |-> <<>>] :
        t \in Texts, k \in Keywords, w \in 0..MaxWindow}
    \cup {[fn |-> "find_first", text |-> t, keyword |-> "", window |-> 0, pats |-> ps] :
        t \in Texts, ps \in PatternLists}
    \cup {[fn |-> "parse_fields", text |-> t, keyword |-> "", window |-> 0, pats |-> <<>>] :
        t \in Texts}

IdleDriver ==
    /\ cards = <<>>
    /\ results = <<>>
    /\ pc = "core"
    /\ gotos = <<>>
    /\ outcome = <<>>
    /\ jsonFile = NotWritten
    /\ csvFile = NotWritten
    /\ writes = [json |-> 0, csv |-> 0]

driver == <<cards, results, pc, gotos, outcome, jsonFile, csvFile, writes>>

InitCore == IdleDriver /\ call \in CoreCalls /\ ret = IdleRet

Returned(r) == [done |-> TRUE, exc |-> r.exc, val |-> r.val]

CallNormalizeWs ==
    /\ call.fn = "normalize_ws" /\ ~ret.done
    /\ ret' = Returned(Return(normalize_ws(call.text)))
    /\ UNCHANGED <<driver, call>>

CallPickSnippet ==
    /\ call.fn = "pick_snippet" /\ ~ret.done
    /\ ret' = Returned(Return(pick_snippet(call.text, call.keyword, call.window)))
    /\ UNCHANGED <<driver, call>>

CallFindFirst ==
    /\ call.fn = "find_first" /\ ~ret.done
    /\ ret' = Returned(find_first(Patterns(call), call.text))
    /\ UNCHANGED <<driver, call>>

CallParseFields ==
    /\ call.fn = "parse_fields" /\ ~ret.done
    /\ ret' = Returned(parse_fields(call.text))
    /\ UNCHANGED <<driver, call>>

NextCore == CallNormalizeWs \/ CallPickSnippet \/ CallFindFirst \/ CallParseFields

SpecCore == InitCore /\ [][NextCore]_vars

----------------------------------------------------------------------------
(* parse_fields on page texts put together from phrases *)

\* how many phrases a text is made of at most
MaxPhrases == 2

Phrases == {"Earn 60,000 points", " after you spend $4,000.", " Annual fee $95.", " bonus",
            " 3x on dining", " 2 miles per $1", "\n spend", " Lounge access"}

RECURSIVE PhraseTexts(_)
PhraseTexts(n) ==
    IF n = 0 THEN {""}
    ELSE LET shorter == PhraseTexts(n - 1)
         IN  shorter \cup {s \o c : s \in shorter, c \in Phrases}

\* 240 characters with none of the keywords: longer than the window
Filler ==
    "lorem ipsum dolor sit amet consetetur sadipscing elitr diam nonumy tempor invidunt ut labore "
    \o "et dolore magna aliquyam erat diam voluptua at vero eos et accusam et iusto duo dolores et "
    \o "ea rebum clita kasd gubergren no sea takimata sanctus est lorem"

LongTexts == {"Earn 5 points on gas, " \o Filler \o " and a bonus of 500.",
              "A bonus. " \o Filler \o " Earn 2 miles per $1 you spend",
              "3x on travel " \o Filler \o " or 1 point per $1. No annual fee"}

ParseTexts == {PyNone} \cup {PyStr(s) : s \in PhraseTexts(MaxPhrases) \cup LongTexts}

InitParse ==
    /\ IdleDriver
    /\ \E t \in ParseTexts :
          call = [fn |-> "parse_fields", text |-> t, keyword |-> "", window |-> 0, pats |-> <<>>]
    /\ ret = IdleRet

NextParse == CallParseFields

SpecParse == InitParse /\ [][NextParse]_vars

----------------------------------------------------------------------------
(* Properties *)

NineFields ==
    {"welcome_bonus", "spend_requirement", "accelerators", "annual_fee_text", "perks_hint",
     "bonus_snippet", "spend_snippet", "fee_snippet", "earn_snippet"}

IsError(status) == Slice(status, 0, 7) = "ERROR: " /\ Len(status) > 7

NoFailure == [fail_at |-> "", kind |-> ""]

\* C1: every row appended to results has a status, one of OK, MISSING_URL and
\* ERROR: <kind>, and a row whose status is not OK holds none of the nine
\* extraction fields, or holds it empty.
C1_FailedRowsHoldNoFields ==
    \A i \in 1..Len(results) :
        LET r == results[i]
        IN  /\ "status" \in DOMAIN r
            /\ r.status \in {"OK", "MISSING_URL"} \/ IsError(r.status)
            /\ r.status # "OK" => \A f \in NineFields : f \notin DOMAIN r \/ r[f] = ""

\* a failed card's row beside the row of a fetched card with a field extracted
C1_Witness ==
    \E i, j \in 1..Len(results) :
        /\ IsError(results[i].status)
        /\ results[j].status = "OK" /\ results[j].welcome_bonus # ""

\* the row each card of the pool gets when nothing fails
NoFailRow == <<card_row(CardPool[1], NoFailure), card_row(CardPool[2], NoFailure),
               card_row(CardPool[3], NoFailure), card_row(CardPool[4], NoFailure),
               card_row(CardPool[5], NoFailure), card_row(CardPool[6], NoFailure),
               card_row(CardPool[7], NoFailure)>>

PoolIndex(c) == CHOOSE k \in 1..Len(CardPool) : CardPool[k] = c

\* C2: no failure aborts the run: the driver never crashes, the rows are those
\* of the cards, in order, one each once the loop is over; the row of a card
\* whose fetch or extraction failed has the status ERROR: <kind of the
\* failure>, and the row of any other card is the one it gets in a run where
\* nothing fails.
C2_PerCardIsolation ==
    /\ pc # "crashed"
    /\ Len(results) <= Len(cards)
    /\ pc \in {"write_json", "write_csv", "done"} => Len(results) = Len(cards)
    /\ \A i \in 1..Len(results) :
          /\ results[i].id = Get(cards[i], "id", "")
          /\ IF outcome[i] \in {"ok", "skipped"}
             THEN results[i] = NoFailRow[PoolIndex(cards[i])]
             ELSE results[i].status = "ERROR: " \o outcome[i]

\* a finished run whose first card failed and whose second was fetched
C2_Witness ==
    /\ pc = "done" /\ Len(results) = 2
    /\ outcome[1] \notin {"ok", "skipped"} /\ IsError(results[1].status)
    /\ outcome[2] = "ok" /\ results[2].status = "OK"

\* the url is absent, null, empty, or holds the sentinel somewhere
Placeholder(c) ==
    \/ "url" \notin DOMAIN c
    \/ c.url.none
    \/ c.url.s = ""
    \/ \E a \in 0..Len(c.url.s) : Slice(c.url.s, a, a + Len(SENTINEL)) = SENTINEL

\* C3: a card whose url is the sentinel (or is absent, null, empty, or holds
\* the sentinel) is never fetched, and its row has the status MISSING_URL and
\* none of the extraction fields.
C3_PlaceholderIsNotFetched ==
    \A i \in 1..Len(cards) :
        Placeholder(cards[i]) =>
            /\ gotos[i] = 0
            /\ i <= Len(results) =>
                  /\ results[i].status = "MISSING_URL"
                  /\ \A f \in NineFields : f \notin DOMAIN results[i]

\* a finished run with a card whose url only contains the sentinel, and
\* another card that was fetched
C3_Witness ==
    /\ pc = "done"
    /\ \E i, j \in 1..Len(cards) :
          /\ Placeholder(cards[i]) /\ "url" \in DOMAIN cards[i]
          /\ ~cards[i].url.none /\ cards[i].url.s \notin {"", SENTINEL}
          /\ results[i].status = "MISSING_URL"
          /\ gotos[j] = 1

C4_State ==
    /\ jsonFile.written \/ csvFile.written => Len(results) = Len(cards)
    /\ writes.json = (IF jsonFile.written THEN 1 ELSE 0)
    /\ writes.csv = (IF csvFile.written THEN 1 ELSE 0)
    /\ jsonFile.written => jsonFile.rows = results
    /\ csvFile.written =>
          /\ Len(csvFile.rows) = Len(cards)
          /\ \A i \in 1..Len(results) : csvFile.rows[i][5] = results[i].status

C4_Step ==
    /\ Len(results') >= Len(results)
    /\ \A i \in 1..Len(results) : results'[i] = results[i]
    /\ jsonFile.written => jsonFile' = jsonFile
    /\ csvFile.written => csvFile' = csvFile

\* C4: an output file is written only once every card has its row, once, with
\* all the rows; a row is never changed after it is appended, nor a file after
\* it is written.
C4_OutputsWrittenOnceAtTheEnd == []C4_State /\ [][C4_Step]_vars

\* both files written for a configuration of two cards
C4_Witness ==
    pc = "done" /\ jsonFile.written /\ csvFile.written /\ Len(jsonFile.rows) = 2

----------------------------------------------------------------------------

Called(fn) == call.fn = fn /\ ret.done

\* the patterns of the call that match somewhere in its text
Matching == {k \in 1..Len(call.pats) : re_search(PatternPool[call.pats[k]], call.text.s).found}

MatchOf(k) ==
    LET m == re_search(PatternPool[call.pats[k]], call.text.s)
    IN  [start |-> m.start, text |-> normalize_ws(PyStr(group0(m, call.text.s)))]

\* C5: find_first returns the normalized match of the first pattern of the
\* list that matches anywhere in the text, wherever the later patterns match;
\* and the empty string if none matches.
C5_FirstPatternWins ==
    Called("find_first") /\ ~call.text.none =>
        /\ ret.exc = ""
        /\ IF Matching = {} THEN ret.val = ""
           ELSE \E k \in Matching : (\A j \in Matching : k <= j) /\ ret.val = MatchOf(k).text

\* a later pattern matches earlier in the text, and the first pattern's match
\* is returned
C5_Witness ==
    /\ Called("find_first") /\ ~call.text.none
    /\ \E k, j \in Matching :
          /\ \A h \in Matching : k <= h
          /\ k < j /\ MatchOf(j).start < MatchOf(k).start
          /\ ret.val = MatchOf(k).text /\ ret.val # MatchOf(j).text

\* the position of the first case-insensitive occurrence of the keyword, or -1
Occurrence == find(lower(call.text.s), lower(call.keyword))

Found == Called("pick_snippet") /\ Truthy(call.text) /\ Occurrence # -1

\* text[max(0, from - window) : min(len(text), to + window)], normalized
Around(from, to) ==
    normalize_ws(PyStr(Slice(call.text.s, Max(0, from - call.window),
                             Min(Len(call.text.s), to + call.window))))

\* C6 as claimed: the snippet spans from window characters before the start of
\* the occurrence to window characters past its END.
C6_SpansPastTheEnd == Found => ret.val = Around(Occurrence, Occurrence + Len(call.keyword))

\* C6 as amended: the snippet spans from window characters before the start
\* of the occurrence to window characters past its START, clipped to the text.
C6_SpansPastTheStart == Found => ret.val = Around(Occurrence, Occurrence)

\* the keyword is found, text goes on past the window, and the snippet is not
\* the one that reaches past the end of the occurrence
C6_Witness ==
    /\ Found /\ call.keyword # ""
    /\ Occurrence + call.window < Len(call.text.s)
    /\ ret.val # Around(Occurrence, Occurrence + Len(call.keyword))

\* C7: no call of the core raises, and an empty or absent text gives empty
\* outputs: the empty string, or for parse_fields nine empty fields.
C7_CoreNeverRaises ==
    ret.done =>
        /\ ret.exc = ""
        /\ call.fn # "normalize_ws" /\ ~Truthy(call.text) =>
              IF call.fn = "parse_fields"
              THEN DOMAIN ret.val = NineFields /\ \A f \in NineFields : ret.val[f] = ""
              ELSE ret.val = ""

\* C8: the snippet is at most 2 * window + len(keyword) characters long.
C8_SnippetLength ==
    Called("pick_snippet") => Len(ret.val) <= 2 * call.window + Len(call.keyword)

\* the occurrence is nearer to the start of the text than the window is wide
\* and the snippet, clipped there, is not empty
C8_Witness ==
    /\ Found /\ Occurrence > 0 /\ Occurrence < call.window
    /\ ret.val # ""

\* C9: normalize_ws of what normalize_ws returned is the same string, and
\* None is normalized as the empty string is.
C9_Idempotent ==
    Called("normalize_ws") =>
        /\ normalize_ws(PyStr(ret.val)) = ret.val
        /\ call.text.none => ret.val = ""

\* a text that normalize_ws changed, to something not empty
C9_Witness ==
    /\ Called("normalize_ws") /\ ~call.text.none
    /\ ret.val # "" /\ ret.val # call.text.s /\ Len(ret.val) + 2 <= Len(call.text.s)

----------------------------------------------------------------------------

Parsed == Called("parse_fields") /\ ret.exc = ""

\* pick_snippet of the text of the call, with the default window
Snippet(keyword) == pick_snippet(call.text, keyword, DefaultWindow)

Absent(keyword) == ~Truthy(call.text) \/ find(lower(call.text.s), lower(keyword)) = -1

\* C10 as claimed: each of the four snippets has a primary and a secondary
\* keyword, and is the primary's snippet unless that is empty, and then the
\* secondary's.
C10_EachSnippetFallsBack ==
    Parsed =>
        \A f \in {"bonus_snippet", "spend_snippet", "fee_snippet", "earn_snippet"} :
            /\ Len(SnippetKeywords[f]) = 2
            /\ ret.val[f] = IF Snippet(SnippetKeywords[f][1]) # ""
                            THEN Snippet(SnippetKeywords[f][1])
                            ELSE Snippet(SnippetKeywords[f][2])

\* C10 as amended: bonus_snippet ("bonus", then "Earn") and earn_snippet
\* ("per $1", then "x") are the primary keyword's snippet when the primary
\* occurs in the text and the secondary's when it does not; spend_snippet is
\* always the snippet of "spend" (its secondary, "after you spend", holds the
\* primary); fee_snippet is the snippet of "annual fee" and has no secondary.
C10_FallbackOfBonusAndEarn ==
    Parsed =>
        /\ ret.val.bonus_snippet = IF Absent("bonus") THEN Snippet("Earn") ELSE Snippet("bonus")
        /\ ret.val.earn_snippet = IF Absent("per $1") THEN Snippet("x") ELSE Snippet("per $1")
        /\ ret.val.spend_snippet = Snippet("spend")
        /\ ret.val.fee_snippet = Snippet("annual fee")
        /\ \A k \in {"bonus", "per $1", "spend"} : Absent(k) <=> Snippet(k) = ""

\* the primary keyword of bonus_snippet is absent and its secondary decides
C10_Witness ==
    /\ Parsed /\ Absent("bonus") /\ ~Absent("Earn")
    /\ ret.val.bonus_snippet # "" /\ ret.val.bonus_snippet = Snippet("Earn")

====
